---- MODULE Spec2Model ----
(***************************************************************************)
(* AI Model Inventory Manager server: the record store (MongoDB, AIModel   *)
(* collection), the ledger store (Firestore, purchase/<uid>/history) and   *)
(* the request handlers of the four revisions of the server kept in the    *)
(* repository:                                                             *)
(*   R0  src/unnamed/part_000        (no authentication, no purchase)      *)
(*   R1  src/index.js lines   1-435  (ownership policy, purchase)          *)
(*   R2  src/index.js lines 436-576  (purchase with duplicate check)       *)
(*   R3  src/index.js lines 577-704  (last revision)                       *)
(* A handler is an async function: every awaited store call is one atomic  *)
(* step, and the steps of requests in flight interleave freely.            *)
(***************************************************************************)
EXTENDS Integers, FiniteSets, Sequences, TLC

\* ---------------------------------------------------------------- bounds
MaxPurchased == 2      \* the purchase counter is capped in the guards
MaxLedger == 2         \* ledger entries kept in the ledger store
MaxRequests == 2       \* requests received in one run

\* ------------------------------------------------------------- universes
Revs == {"R0", "R1", "R2", "R3"}
\* requests in flight at the same time
Slots == {1, 2}

NoUid == "none"
Uids == {"u1", "u2", "u3"}
Anon == "anon"                       \* a request without a bearer token
Callers == Uids \cup {Anon}
\* the callers that buy (u3 differs from u1 in nothing a purchase reads)
Buyers == {"u1", "u2", Anon}
Emails == {"a@x", "b@x"}

\* req.user.email of the decoded token; u1 and u3 share an address
EmailOf(u) == IF u = "u2" THEN "b@x" ELSE "a@x"

\* one _id: the record it names is there from the start, is created by POST
\* /models, or never exists; a deleted record's _id is not used again
ObjIds == {1}
\* request strings for a model id: the 24 hex digits of an ObjectId in lower
\* or in upper case, and one string that is no ObjectId
BadId == "zz"
RawIds == {"a1", "A1", BadId}

\* ObjectId.isValid(id)
IsValid(raw) == raw # BadId

\* new ObjectId(id): hex digits are parsed without regard to case
ObjectIdOf(raw) == 1

ValidRawIds == {r \in RawIds : IsValid(r)}

\* the ids sent to the routes that only parse the id
PathIds == {"a1", BadId}

Names == {"n1", "n2"}

\* -------------------------------------------------------------- records
\* ModelSchema: developerEmail, developerUid, purchased (default 0),
\* modelName.  live = FALSE stands for "no document with this _id".
NoModel ==
  [live |-> FALSE, developerEmail |-> "a@x", developerUid |-> NoUid,
   purchased |-> 0, modelName |-> "n1"]

NewModel(email, uid, name) ==
  [live |-> TRUE, developerEmail |-> email, developerUid |-> uid,
   purchased |-> 0, modelName |-> name]

\* The records a deployment of revision r may find in the collection: none,
\* a record saved by part_000 (its schema has no developerUid), or, after
\* R0, a record saved by POST /models of R1 (developerUid = req.user.uid).
InitialRecords(r) ==
  {NoModel}
    \cup (IF r = "R0" THEN {} ELSE {NewModel(e, NoUid, "n1") : e \in Emails})
    \cup (IF r \in {"R2", "R3"}
          THEN {NewModel(EmailOf(u), u, "n1") : u \in {"u1", "u2"}} ELSE {})

\* a field that an object (a request body, a document) does not have
Absent == "absent"

\* the document a purchase writes: the history it is written to (path) and
\* its fields id, buyerUid, purchaseDate
NoEntry ==
  [path |-> Absent, id |-> Absent, buyerUid |-> Absent, purchaseDate |-> Absent]

\* HTTP status of a request that got no response (an async handler without
\* try/catch whose store call rejected)
NoResponse == 0

\* A request slot.  kind, caller, id are the request; pc is the await the
\* handler is suspended at; status is the HTTP status once pc = "done".
\* The remaining fields record what the request met and did:
\*   hadEntry  the ledger held an entry of the caller for the model at issue
\*   wasLive   the record existed at issue
\*   wasOwner  the caller was the record's owner (ownership policy) at issue
\*   migrated  it wrote its caller's uid into a record without developerUid
\*   found     the duplicate check found an entry
\*   raced     when it passed the duplicate check, another purchase of the
\*             same buyer and modelId had passed it and not yet inserted
\*   checked   its duplicate check has completed
\*   incd      its $inc call has completed
\*   liveAtInc the $inc matched a record
\*   nInc      by how much its $inc raised the counter
\*   nSet      how many ledger entries it inserted
\*   failed    one of its store calls was rejected
\*   applied   its update or delete matched a record
\*   entry     the ledger document it wrote
IdleReq ==
  [kind |-> "idle", caller |-> Anon, id |-> BadId, pc |-> "idle",
   status |-> NoResponse,
   hadEntry |-> FALSE, wasLive |-> FALSE, wasOwner |-> FALSE,
   migrated |-> FALSE, found |-> FALSE, raced |-> FALSE, liveAtInc |-> FALSE,
   nInc |-> 0, nSet |-> 0, failed |-> FALSE, applied |-> FALSE,
   entry |-> NoEntry, checked |-> FALSE, incd |-> FALSE]

VARIABLES rev, models, nextId, ledger, reqs, received

vars == <<rev, models, nextId, ledger, reqs, received>>

LedgerKeys == (Buyers \ {Anon}) \X ValidRawIds

Init ==
  /\ rev \in Revs
  /\ \E r \in InitialRecords(rev) :
       /\ models = [i \in ObjIds |-> r]
       /\ nextId = IF r.live THEN 2 ELSE 1
  /\ ledger = [k \in LedgerKeys |-> 0]
  /\ reqs = [s \in Slots |-> IdleReq]
  /\ received = 0

\* ------------------------------------------------------------- helpers
\* verifyToken: next() only for a token that verifyIdToken accepts
verifyToken(c) == c \in Uids

\* a response, once computed, is sent before any handler runs on
Sending == \E t \in Slots : reqs[t].pc = "done"

\* the lowest free slot takes the next request
Free(s) ==
  /\ ~Sending
  /\ received < MaxRequests
  /\ reqs[s].pc = "idle"
  /\ \A t \in Slots : t < s => reqs[t].pc # "idle"

\* request s is a k request suspended at await p
At(s, k, p) == ~Sending /\ reqs[s].kind = k /\ reqs[s].pc = p

Done(r, st) == [r EXCEPT !.pc = "done", !.status = st]

\* the ledger entries of buyer b that refer to record oid, whatever the
\* spelling of the stored modelId
EntriesFor(l, b, oid) ==
  Cardinality({e \in ValidRawIds \X (1..MaxLedger + 1) :
                 ObjectIdOf(e[1]) = oid /\ e[2] <= l[<<b, e[1]>>]})

LedgerSize(l) ==
  Cardinality({e \in LedgerKeys \X (1..MaxLedger + 1) : e[2] <= l[e[1]]})

\* the ownership policy of PATCH and DELETE /models/:id (R1)
isOwner(rec, uid, email) ==
  IF rec.developerUid # NoUid
  THEN rec.developerUid = uid
  ELSE rec.developerEmail = email

\* what a request records about the stores when it is issued
Issued(k, c, id) ==
  LET valid == IsValid(id)
      rec == IF valid THEN models[ObjectIdOf(id)] ELSE NoModel
  IN [IdleReq EXCEPT
        !.kind = k, !.caller = c, !.id = id,
        !.hadEntry = k = "purchase" /\ valid /\ c \in Buyers \ {Anon}
                       /\ EntriesFor(ledger, c, ObjectIdOf(id)) > 0,
        !.wasLive = rec.live,
        !.wasOwner = k \in {"patch", "delete"} /\ rec.live /\ c \in Uids
                       /\ isOwner(rec, c, EmailOf(c))]

\* a handler of request s runs up to its next await
SetReq(s, r) == reqs' = [reqs EXCEPT ![s] = r] /\ UNCHANGED received

\* request r arrives and runs up to its first store call
Accept(s, r) == reqs' = [reqs EXCEPT ![s] = r] /\ received' = received + 1

\* ------------------------------------------------- POST /purchase-model
\* historyRef.where('modelId', '==', modelId).get(), !existing.empty: the
\* stored string is compared, not the ObjectId it denotes
DupFound(l, b, raw) == IsValid(raw) /\ l[<<b, raw>>] > 0

IncPurchasedTwice(ms, oid) ==
  IF ms[oid].live THEN [ms EXCEPT ![oid].purchased = @ + 2] ELSE ms

\* updateOne({ _id }, { $inc: { purchased: 1 } })
IncPurchased(ms, oid) ==
  IF ms[oid].live THEN [ms EXCEPT ![oid].purchased = @ + 1] ELSE ms

LedgerInsertUnique(l, b, raw) ==
  IF l[<<b, raw>>] > 0 THEN l ELSE [l EXCEPT ![<<b, raw>>] = @ + 1]

\* purchaseRef.set({...}) on a fresh document of the buyer's history
LedgerInsert(l, b, raw) == [l EXCEPT ![<<b, raw>>] = @ + 1]

\* R1: verifyToken, then ObjectId.isValid(modelId), then the $inc
PurchaseStartR1(s, c, id) ==
  /\ rev = "R1" /\ Free(s)
  /\ LET r == Issued("purchase", c, id)
     IN Accept(s, IF ~verifyToken(c) THEN Done(r, 401)
                  ELSE IF ~IsValid(id) THEN Done(r, 400)
                  ELSE [r EXCEPT !.pc = "inc"])
  /\ UNCHANGED <<rev, models, nextId, ledger>>

\* R2: verifyToken, ObjectId.isValid(modelId), then the duplicate check
PurchaseStartR2(s, c, id) ==
  /\ rev = "R2" /\ Free(s)
  /\ LET r == Issued("purchase", c, id)
     IN Accept(s, IF ~verifyToken(c) THEN Done(r, 401)
                  ELSE IF ~IsValid(id) THEN Done(r, 400)
                  ELSE [r EXCEPT !.pc = "check"])
  /\ UNCHANGED <<rev, models, nextId, ledger>>

\* R3: verifyToken, then the duplicate check; the id is not validated
PurchaseStartR3(s, c, id) ==
  /\ rev = "R3" /\ Free(s)
  /\ LET r == Issued("purchase", c, id)
     IN Accept(s, IF ~verifyToken(c) THEN Done(r, 401)
                  ELSE [r EXCEPT !.pc = "check"])
  /\ UNCHANGED <<rev, models, nextId, ledger>>

\* another purchase of the same buyer and modelId is between its duplicate
\* check and its ledger write
Racing(s) ==
  \E t \in Slots \ {s} :
    /\ reqs[t].kind = "purchase" /\ reqs[t].pc \in {"inc", "set"}
    /\ reqs[t].caller = reqs[s].caller /\ reqs[t].id = reqs[s].id

\* R2, R3: the one-time purchase check
PurchaseCheck(s) ==
  /\ At(s, "purchase", "check")
  /\ LET r == reqs[s]
     IN SetReq(s, IF DupFound(ledger, r.caller, r.id)
                  THEN Done([r EXCEPT !.found = TRUE, !.checked = TRUE], 400)
                  ELSE [r EXCEPT !.pc = "inc", !.raced = Racing(s),
                          !.checked = TRUE])
  /\ UNCHANGED <<rev, models, nextId, ledger>>

\* R1, R2: the $inc, 404 when modifiedCount is 0
PurchaseInc(s) ==
  /\ rev \in {"R1", "R2"}
  /\ At(s, "purchase", "inc")
  /\ LET r == reqs[s]
         oid == ObjectIdOf(r.id)
     IN /\ models[oid].purchased < MaxPurchased
        /\ models' = IncPurchased(models, oid)
        /\ SetReq(s, IF models'[oid].purchased = models[oid].purchased
                     THEN Done([r EXCEPT !.incd = TRUE], 404)
                     ELSE [r EXCEPT !.pc = "set", !.liveAtInc = models[oid].live,
                             !.incd = TRUE,
                             !.nInc = @ + models'[oid].purchased - models[oid].purchased])
  /\ UNCHANGED <<rev, nextId, ledger>>

\* R3: the $inc, its result unused; new ObjectId(modelId) throws on a
\* string that is no ObjectId and the catch answers 500
PurchaseIncR3(s) ==
  /\ rev = "R3"
  /\ At(s, "purchase", "inc")
  /\ LET r == reqs[s]
         oid == ObjectIdOf(r.id)
     IN IF ~IsValid(r.id)
        THEN /\ SetReq(s, Done(r, 500))
             /\ UNCHANGED models
        ELSE /\ models[oid].purchased < MaxPurchased
             /\ models' = IncPurchased(models, oid)
             /\ SetReq(s, [r EXCEPT !.pc = "set", !.liveAtInc = models[oid].live,
                             !.incd = TRUE,
                             !.nInc = @ + models'[oid].purchased - models[oid].purchased])
  /\ UNCHANGED <<rev, nextId, ledger>>

\* purchaseRef.id, the id Firestore generates for historyRef.doc()
GenId == "gen"

\* new Date().toISOString()
ServerNow == "now"

\* what req.body may carry besides modelId: id, buyerUid, purchaseDate
PurchaseBodies ==
  [id : {Absent, "x1"}, buyerUid : {Absent, "u1", "u2"},
   purchaseDate : {Absent, "d0"}]

\* { ...rec, ...o }: a field of o replaces the field of rec
Overlay(rec, o) ==
  [f \in DOMAIN rec |-> IF o[f] # Absent THEN o[f] ELSE rec[f]]

\* { id: purchaseRef.id, ...req.body, buyerUid, purchaseDate }
PurchaseRecord(genId, body, buyerUid, now) ==
  Overlay(Overlay([id |-> genId, buyerUid |-> Absent, purchaseDate |-> Absent],
                  body),
          [id |-> Absent, buyerUid |-> buyerUid, purchaseDate |-> now])

\* the ledger write and the answer { acknowledged: true }
PurchaseSet(s, body) ==
  /\ At(s, "purchase", "set")
  /\ LET r == reqs[s]
         k == <<r.caller, r.id>>
         doc == PurchaseRecord(GenId, body, r.caller, ServerNow)
     IN /\ LedgerSize(ledger) < MaxLedger
        /\ ledger' = LedgerInsert(ledger, r.caller, r.id)
        /\ SetReq(s, Done([r EXCEPT !.nSet = @ + ledger'[k] - ledger[k],
                              !.entry = [path |-> r.caller, id |-> doc.id,
                                         buyerUid |-> doc.buyerUid,
                                         purchaseDate |-> doc.purchaseDate]], 200))
  /\ UNCHANGED <<rev, models, nextId>>

\* ------------------------------------------- PATCH /models/purchase/:id
\* R1: verifyToken, ObjectId.isValid(id), then a bare $inc of the counter
BumpStart(s, c, id) ==
  /\ rev = "R1" /\ Free(s)
  /\ LET r == Issued("bump", c, id)
     IN Accept(s, IF ~verifyToken(c) THEN Done(r, 401)
                  ELSE IF ~IsValid(id) THEN Done(r, 400)
                  ELSE [r EXCEPT !.pc = "inc"])
  /\ UNCHANGED <<rev, models, nextId, ledger>>

BumpInc(s) ==
  /\ At(s, "bump", "inc")
  /\ LET r == reqs[s]
         oid == ObjectIdOf(r.id)
     IN /\ models[oid].purchased < MaxPurchased
        /\ models' = IncPurchased(models, oid)
        /\ SetReq(s, IF models'[oid].purchased = models[oid].purchased
                     THEN Done(r, 404)
                     ELSE Done([r EXCEPT !.liveAtInc = TRUE,
                                  !.nInc = @ + models'[oid].purchased - models[oid].purchased], 200))
  /\ UNCHANGED <<rev, nextId, ledger>>

\* ------------------------------------------------------ POST /models
\* R0: new AIModelOne(req.body).save(); the schema has no developerUid and
\* no purchased, and nobody is authenticated
CreateStartR0(s, c) ==
  /\ rev = "R0" /\ Free(s)
  /\ Accept(s, [Issued("create", c, BadId) EXCEPT !.pc = "save"])
  /\ UNCHANGED <<rev, models, nextId, ledger>>

CreateSaveR0(s, email, name) ==
  /\ rev = "R0"
  /\ At(s, "create", "save")
  /\ nextId \in ObjIds
  /\ models' = [models EXCEPT ![nextId] = NewModel(email, NoUid, name)]
  /\ nextId' = nextId + 1
  /\ SetReq(s, Done([reqs[s] EXCEPT !.applied = TRUE], 201))
  /\ UNCHANGED <<rev, ledger>>

\* R1: verifyToken; 403 unless body.developerEmail is the token's email;
\* developerUid is overwritten with req.user.uid; body.purchased is kept
CreateStartR1(s, c, email) ==
  /\ rev = "R1" /\ Free(s)
  /\ LET r == Issued("create", c, BadId)
     IN Accept(s, IF ~verifyToken(c) THEN Done(r, 401)
                  ELSE IF email # EmailOf(c) THEN Done(r, 403)
                  ELSE [r EXCEPT !.pc = "save"])
  /\ UNCHANGED <<rev, models, nextId, ledger>>

\* newModelData.developerUid = req.user.uid
AssignOwner(data, uid) == [data EXCEPT !.developerUid = uid]

\* the body passed the email test; it may name a developerUid of its own
CreateSaveR1(s, name, purchased, bodyUid) ==
  /\ rev = "R1"
  /\ At(s, "create", "save")
  /\ nextId \in ObjIds
  /\ models' = [models EXCEPT ![nextId] =
                  AssignOwner([NewModel(EmailOf(reqs[s].caller), bodyUid, name)
                                 EXCEPT !.purchased = purchased],
                              reqs[s].caller)]
  /\ nextId' = nextId + 1
  /\ SetReq(s, Done([reqs[s] EXCEPT !.applied = TRUE], 201))
  /\ UNCHANGED <<rev, ledger>>

\* ------------------------------------------------- PATCH /models/:id
\* $set of the fields a body names; an absent field leaves the record's
SetFields(rec, body) ==
  [rec EXCEPT
     !.modelName = IF body.modelName = Absent THEN @ ELSE body.modelName,
     !.purchased = IF body.purchased = -1 THEN @ ELSE body.purchased,
     !.developerUid = IF body.developerUid = Absent THEN @ ELSE body.developerUid]

\* req.body of a PATCH: modelName, purchased and developerUid, each optional
\* (purchased = -1: not in the body; developerUid NoUid: null)
PatchBodies ==
  [modelName : Names \cup {Absent},
   purchased : -1..MaxPurchased,
   developerUid : Uids \cup {NoUid, Absent}]

\* the updateDoc of R0 and R1 names modelName, description, price,
\* category, imageUrl (R1: and name, framework, useCase, dataset) only
Whitelisted(body) ==
  [modelName |-> body.modelName, purchased |-> -1, developerUid |-> Absent]

\* R0: ObjectId.isValid(id), then updateOne({ _id }, updateDoc)
PatchStartR0(s, c, id) ==
  /\ rev = "R0" /\ Free(s)
  /\ LET r == Issued("patch", c, id)
     IN Accept(s, IF ~IsValid(id) THEN Done(r, 400)
                  ELSE [r EXCEPT !.pc = "update"])
  /\ UNCHANGED <<rev, models, nextId, ledger>>

PatchUpdateR0(s, body) ==
  /\ rev = "R0"
  /\ At(s, "patch", "update")
  /\ LET r == reqs[s]
         oid == ObjectIdOf(r.id)
     IN IF models[oid].live
        THEN /\ models' = [models EXCEPT ![oid] = SetFields(@, Whitelisted(body))]
             /\ SetReq(s, Done([r EXCEPT !.applied = TRUE], 200))
        ELSE /\ SetReq(s, Done(r, 404))
             /\ UNCHANGED models
  /\ UNCHANGED <<rev, nextId, ledger>>

\* R1: verifyToken, ObjectId.isValid(id), then findById
FindStartR1(s, k, c, id) ==
  /\ rev = "R1" /\ Free(s)
  /\ k \in {"patch", "delete"}
  /\ LET r == Issued(k, c, id)
     IN Accept(s, IF ~verifyToken(c) THEN Done(r, 401)
                  ELSE IF ~IsValid(id) THEN Done(r, 400)
                  ELSE [r EXCEPT !.pc = "find"])
  /\ UNCHANGED <<rev, models, nextId, ledger>>

\* R1, PATCH and DELETE: findById; 404 without a record; the ownership
\* policy on the record read; 403 for another caller; the owner by email of
\* a record without developerUid goes on to the migration
FindR1(s) ==
  /\ rev = "R1"
  /\ At(s, reqs[s].kind, "find") /\ reqs[s].kind \in {"patch", "delete"}
  /\ LET r == reqs[s]
         existingModel == models[ObjectIdOf(r.id)]
     IN SetReq(s, IF ~existingModel.live THEN Done(r, 404)
                  ELSE IF ~isOwner(existingModel, r.caller, EmailOf(r.caller))
                       THEN Done(r, 403)
                  ELSE IF existingModel.developerUid = NoUid
                       THEN [r EXCEPT !.pc = "migrate"]
                  ELSE [r EXCEPT !.pc = IF r.kind = "patch" THEN "update" ELSE "delete"])
  /\ UNCHANGED <<rev, models, nextId, ledger>>

\* updateOne({ _id }, { $set: { developerUid: userUid } })
Migrate(ms, oid, uid) ==
  IF ms[oid].live THEN [ms EXCEPT ![oid].developerUid = uid] ELSE ms

MigrateR1(s) ==
  /\ rev = "R1"
  /\ At(s, reqs[s].kind, "migrate") /\ reqs[s].kind \in {"patch", "delete"}
  /\ LET r == reqs[s]
     IN /\ models' = Migrate(models, ObjectIdOf(r.id), r.caller)
        /\ SetReq(s, [r EXCEPT !.pc = IF r.kind = "patch" THEN "update" ELSE "delete",
                                !.migrated = models' # models])
  /\ UNCHANGED <<rev, nextId, ledger>>

\* R1: updateOne({ _id }, updateDoc), then findById for the answer: the
\* record, or 404 when it is gone
PatchUpdateR1(s, body) ==
  /\ rev = "R1"
  /\ At(s, "patch", "update")
  /\ LET r == reqs[s]
         oid == ObjectIdOf(r.id)
     IN IF models[oid].live
        THEN /\ models' = [models EXCEPT ![oid] = SetFields(@, Whitelisted(body))]
             /\ SetReq(s, Done([r EXCEPT !.applied = TRUE], 200))
        ELSE /\ SetReq(s, Done(r, 404))
             /\ UNCHANGED models
  /\ UNCHANGED <<rev, nextId, ledger>>

\* the filter of updateOne and deleteOne in R2 and R3:
\* { _id: new ObjectId(req.params.id), developerUid: req.user.uid }
MatchesOwned(rec, uid) == rec.live /\ rec.developerUid = uid

\* R2, R3: verifyToken, then the update; the id is not validated
OwnedStart(s, k, c, id) ==
  /\ rev \in {"R2", "R3"} /\ Free(s)
  /\ k \in {"patch", "delete"}
  /\ LET r == Issued(k, c, id)
     IN Accept(s, IF ~verifyToken(c) THEN Done(r, 401)
                  ELSE [r EXCEPT !.pc = IF k = "patch" THEN "update" ELSE "delete"])
  /\ UNCHANGED <<rev, models, nextId, ledger>>

\* what a handler answers when new ObjectId(id) or a store call throws:
\* 500 from the catch; nothing in R3, whose GET, PATCH and DELETE have none
Thrown(r) ==
  IF rev = "R3" /\ r.kind \in {"patch", "delete", "get"} THEN NoResponse ELSE 500

\* R2, R3: updateOne(filter, { $set: req.body }); res.send(result)
PatchUpdateOwned(s, body) ==
  /\ rev \in {"R2", "R3"}
  /\ At(s, "patch", "update")
  /\ LET r == reqs[s]
         oid == ObjectIdOf(r.id)
     IN IF ~IsValid(r.id)
        THEN /\ SetReq(s, Done(r, Thrown(r)))
             /\ UNCHANGED models
        ELSE IF MatchesOwned(models[oid], r.caller)
        THEN /\ models' = [models EXCEPT ![oid] = SetFields(@, body)]
             /\ SetReq(s, Done([r EXCEPT !.applied = TRUE], 200))
        ELSE /\ SetReq(s, Done(r, 200))
             /\ UNCHANGED models
  /\ UNCHANGED <<rev, nextId, ledger>>

\* ------------------------------------------------ DELETE /models/:id
\* R0: ObjectId.isValid(id), then deleteOne({ _id })
DeleteStartR0(s, c, id) ==
  /\ rev = "R0" /\ Free(s)
  /\ LET r == Issued("delete", c, id)
     IN Accept(s, IF ~IsValid(id) THEN Done(r, 400)
                  ELSE [r EXCEPT !.pc = "delete"])
  /\ UNCHANGED <<rev, models, nextId, ledger>>

\* R0, R1: deleteOne({ _id }); 404 when deletedCount is 0
DeleteById(s) ==
  /\ rev \in {"R0", "R1"}
  /\ At(s, "delete", "delete")
  /\ LET r == reqs[s]
         oid == ObjectIdOf(r.id)
     IN IF models[oid].live
        THEN /\ models' = [models EXCEPT ![oid] = NoModel]
             /\ SetReq(s, Done([r EXCEPT !.applied = TRUE], 200))
        ELSE /\ SetReq(s, Done(r, 404))
             /\ UNCHANGED models
  /\ UNCHANGED <<rev, nextId, ledger>>

\* R2, R3: deleteOne(filter); res.send(result)
DeleteOwned(s) ==
  /\ rev \in {"R2", "R3"}
  /\ At(s, "delete", "delete")
  /\ LET r == reqs[s]
         oid == ObjectIdOf(r.id)
     IN IF ~IsValid(r.id)
        THEN /\ SetReq(s, Done(r, Thrown(r)))
             /\ UNCHANGED models
        ELSE IF MatchesOwned(models[oid], r.caller)
        THEN /\ models' = [models EXCEPT ![oid] = NoModel]
             /\ SetReq(s, Done([r EXCEPT !.applied = TRUE], 200))
        ELSE /\ SetReq(s, Done(r, 200))
             /\ UNCHANGED models
  /\ UNCHANGED <<rev, nextId, ledger>>

\* --------------------------------------------------- GET /models/:id
\* every revision: no verifyToken; 400 unless ObjectId.isValid(id)
GetStart(s, id) ==
  /\ Free(s)
  /\ LET r == Issued("get", Anon, id)
     IN Accept(s, IF ~IsValid(id) THEN Done(r, 400)
                  ELSE [r EXCEPT !.pc = "get"])
  /\ UNCHANGED <<rev, models, nextId, ledger>>

\* findById; 404 without a record, but R3 sends { message: "Not Found" }
\* with status 200
GetFind(s) ==
  /\ At(s, "get", "get")
  /\ LET r == reqs[s]
         model == models[ObjectIdOf(r.id)]
     IN SetReq(s, IF model.live \/ rev = "R3" THEN Done(r, 200) ELSE Done(r, 404))
  /\ UNCHANGED <<rev, models, nextId, ledger>>

\* ------------------------------------------------------ store failures
CaughtWithRollback(ms, r) ==
  IF r.kind = "purchase" /\ r.pc = "set" /\ ms[ObjectIdOf(r.id)].live
  THEN [ms EXCEPT ![ObjectIdOf(r.id)].purchased = @ - 1]
  ELSE ms

\* catch (error) { res.status(500).send(...) }: what the catch block of
\* request r writes to the record store, which is nothing
Caught(ms, r) == ms

\* a store call is rejected: the catch answers 500 (400 in POST /models of
\* R1; R3's PATCH and DELETE answer nothing) and nothing is undone
StoreFails(s) ==
  /\ ~Sending
  /\ reqs[s].pc \in {"check", "inc", "set", "save", "find", "migrate", "update",
                    "delete", "get"}
  /\ LET r == reqs[s]
         oid == ObjectIdOf(r.id)
     IN /\ models' = Caught(models, r)
        /\ SetReq(s, Done([r EXCEPT !.failed = TRUE,
                              !.nInc = @ + models'[oid].purchased - models[oid].purchased],
                          IF r.kind = "create" /\ rev = "R1" THEN 400 ELSE Thrown(r)))
  /\ UNCHANGED <<rev, nextId, ledger>>

\* the response has been sent; the slot is free again
Finish(s) ==
  /\ reqs[s].pc = "done"
  /\ SetReq(s, IdleReq)
  /\ UNCHANGED <<rev, models, nextId, ledger>>

Next ==
  \/ \E s \in Slots, c \in Buyers, id \in RawIds : PurchaseStartR1(s, c, id)
  \/ \E s \in Slots, c \in Buyers, id \in RawIds : PurchaseStartR2(s, c, id)
  \/ \E s \in Slots, c \in Buyers, id \in RawIds : PurchaseStartR3(s, c, id)
  \/ \E s \in Slots : PurchaseCheck(s)
  \/ \E s \in Slots : PurchaseInc(s)
  \/ \E s \in Slots : PurchaseIncR3(s)
  \/ \E s \in Slots, b \in PurchaseBodies : PurchaseSet(s, b)
  \/ \E s \in Slots, c \in Callers, id \in PathIds : BumpStart(s, c, id)
  \/ \E s \in Slots : BumpInc(s)
  \/ \E s \in Slots, c \in Callers : CreateStartR0(s, c)
  \/ \E s \in Slots, e \in Emails, n \in Names : CreateSaveR0(s, e, n)
  \/ \E s \in Slots, c \in Callers, e \in Emails : CreateStartR1(s, c, e)
  \/ \E s \in Slots, n \in Names, p \in 0..MaxPurchased, u \in Uids \cup {NoUid} :
       CreateSaveR1(s, n, p, u)
  \/ \E s \in Slots, c \in Callers, id \in PathIds : PatchStartR0(s, c, id)
  \/ \E s \in Slots, b \in PatchBodies : PatchUpdateR0(s, b)
  \/ \E s \in Slots, k \in {"patch", "delete"}, c \in Callers, id \in PathIds : FindStartR1(s, k, c, id)
  \/ \E s \in Slots : FindR1(s)
  \/ \E s \in Slots : MigrateR1(s)
  \/ \E s \in Slots, b \in PatchBodies : PatchUpdateR1(s, b)
  \/ \E s \in Slots, k \in {"patch", "delete"}, c \in Callers, id \in PathIds : OwnedStart(s, k, c, id)
  \/ \E s \in Slots, b \in PatchBodies : PatchUpdateOwned(s, b)
  \/ \E s \in Slots, c \in Callers, id \in PathIds : DeleteStartR0(s, c, id)
  \/ \E s \in Slots : DeleteById(s)
  \/ \E s \in Slots : DeleteOwned(s)
  \/ \E s \in Slots, id \in PathIds : GetStart(s, id)
  \/ \E s \in Slots : GetFind(s)
  \/ \E s \in Slots : StoreFails(s)
  \/ \E s \in Slots : Finish(s)

Spec == Init /\ [][Next]_vars

\* ================================================================ claims
IsDone(r, k) == r.pc = "done" /\ r.kind = k

\* the caller went through verifyToken and was accepted
Verified(r) == rev # "R0" /\ verifyToken(r.caller)

\* the request of slot s took the step
Stepped(s) == reqs'[s] # reqs[s]

\* ---- C1
\* C1 as stated: a purchase by a verified buyer with a valid id, issued when
\* the record exists and the ledger holds no entry of the buyer for it, and
\* with no store call failing, succeeds, inserts exactly one ledger entry
\* and raises the counter by exactly 1.
C1_AsStated ==
  \A s \in Slots :
    LET r == reqs[s] IN
    (IsDone(r, "purchase") /\ Verified(r) /\ IsValid(r.id)
       /\ r.wasLive /\ ~r.hadEntry /\ ~r.failed)
      => (r.status = 200 /\ r.nInc = 1 /\ r.nSet = 1)

\* C1 amended: a purchase by a verified buyer with a valid id whose duplicate
\* check (where the revision has one) finds no entry, whose $inc matches a
\* record, and none of whose store calls fails, succeeds, inserts exactly
\* one ledger entry and raises the counter by exactly 1.
C1_PurchaseSucceeds ==
  \A s \in Slots :
    LET r == reqs[s] IN
    (IsDone(r, "purchase") /\ Verified(r) /\ IsValid(r.id)
       /\ ~r.found /\ r.liveAtInc /\ ~r.failed)
      => (r.status = 200 /\ r.nInc = 1 /\ r.nSet = 1)

C1_Witness ==
  \E s \in Slots :
    LET r == reqs[s] IN
    /\ IsDone(r, "purchase") /\ Verified(r) /\ IsValid(r.id)
    /\ r.wasLive /\ ~r.hadEntry /\ ~r.found /\ r.liveAtInc /\ ~r.failed
    /\ r.status = 200 /\ r.nInc = 1 /\ r.nSet = 1
    /\ ledger[<<r.caller, r.id>>] = 1

\* ---- C2
\* C2: a purchase issued when the ledger already holds an entry of the buyer
\* for the model (an earlier purchase succeeded) fails with 400, raises no
\* counter and inserts no ledger entry.
C2_RepeatIsConflict ==
  \A s \in Slots :
    LET r == reqs[s] IN
    (IsDone(r, "purchase") /\ Verified(r) /\ IsValid(r.id)
       /\ r.hadEntry /\ ~r.failed)
      => (r.status = 400 /\ r.nInc = 0 /\ r.nSet = 0)

\* ---- C3
\* C3: the ledger holds at most one entry per buyer and modelId.
C3_OneEntryPerPair == \A k \in LedgerKeys : ledger[k] <= 1

\* ---- C4
\* C4: concurrent purchases of one buyer for one model are not mutually
\* excluded: a purchase that passes the duplicate check while another one
\* for the same buyer and modelId is between its check and its insert is
\* not held back by it; with the record there and no store call failing it
\* raises the counter and inserts its own ledger entry.
C4_NoMutualExclusion ==
  \A s \in Slots :
    LET r == reqs[s] IN
    (IsDone(r, "purchase") /\ r.raced /\ r.liveAtInc /\ ~r.failed)
      => (r.status = 200 /\ r.nInc = 1 /\ r.nSet = 1
            /\ ledger[<<r.caller, r.id>>] >= 1)

\* both requests passed the check before either inserted; the counter went
\* from 0 to 2 and the ledger holds two entries for the one pair
C4_Witness ==
  \E s \in Slots :
    LET r == reqs[s] IN
    /\ IsDone(r, "purchase") /\ r.raced /\ r.status = 200
    /\ ~r.hadEntry /\ ~r.found
    /\ ledger[<<r.caller, r.id>>] = 2
    /\ models[ObjectIdOf(r.id)].purchased = 2

\* ---- C5
\* C5: the purchase counter of a record never decreases and only a step of
\* POST /purchase-model changes it.
C5_CounterOnlyByPurchase ==
  [][\A i \in ObjIds :
       (models[i].live /\ models'[i].live)
         => /\ models'[i].purchased >= models[i].purchased
            /\ (models'[i].purchased # models[i].purchased
                  => \E s \in Slots : reqs[s].kind = "purchase" /\ Stepped(s))]_vars

\* ---- C6
\* C6: a step of PATCH or DELETE /models/:id changes or removes a record
\* only if its caller is verified and is the record's owner under the
\* ownership policy at that moment.
C6_OnlyOwnerChanges ==
  [][\A s \in Slots :
       (reqs[s].kind \in {"patch", "delete"} /\ Stepped(s) /\ models' # models)
         => /\ Verified(reqs[s])
            /\ isOwner(models[ObjectIdOf(reqs[s].id)], reqs[s].caller,
                       EmailOf(reqs[s].caller))]_vars

\* ---- C7
\* C7: a PATCH or DELETE /models/:id by a verified caller who is not the
\* owner of the existing record (when the request is issued and when it is
\* answered) is answered with 403.
C7_NonOwnerForbidden ==
  \A s \in Slots :
    LET r == reqs[s]
        rec == models[ObjectIdOf(r.id)]
    IN (r.pc = "done" /\ r.kind \in {"patch", "delete"} /\ Verified(r)
          /\ IsValid(r.id) /\ r.wasLive /\ ~r.wasOwner /\ ~r.failed
          /\ rec.live /\ ~isOwner(rec, r.caller, EmailOf(r.caller)))
         => r.status = 403

\* ---- C8
\* C8: once a PATCH by the email owner of a record without owner id has
\* succeeded (it migrated the record and its update applied), the record's
\* owner id is that caller's id.
C8_MigrationSticks ==
  \A s \in Slots :
    LET r == reqs[s]
        rec == models[ObjectIdOf(r.id)]
    IN (IsDone(r, "patch") /\ Verified(r) /\ r.migrated /\ r.applied
          /\ r.status = 200 /\ rec.live)
         => rec.developerUid = r.caller

\* ---- C9
\* C9: an owner id, once set, is never changed or cleared.
C9_OwnerIdImmutable ==
  [][\A i \in ObjIds :
       (models[i].live /\ models[i].developerUid # NoUid /\ models'[i].live)
         => models'[i].developerUid = models[i].developerUid]_vars

\* ---- C10
\* C10: a purchase with a valid id that matches no record (when issued and
\* when answered), by a buyer without an earlier entry and with no store
\* call failing, is answered 404, inserts no ledger entry and raises no
\* counter.
C10_MissingModelNotFound ==
  \A s \in Slots :
    LET r == reqs[s] IN
    (IsDone(r, "purchase") /\ Verified(r) /\ IsValid(r.id)
       /\ ~r.wasLive /\ ~models[ObjectIdOf(r.id)].live
       /\ ~r.hadEntry /\ ~r.failed)
      => (r.status = 404 /\ r.nInc = 0 /\ r.nSet = 0)

C12_EntryFieldsFromServer ==
  \A s \in Slots :
    LET r == reqs[s] IN
    (IsDone(r, "purchase") /\ r.nSet = 1)
      => /\ r.entry.path = r.caller
         /\ r.entry.buyerUid = r.caller
         /\ r.entry.purchaseDate = ServerNow
         /\ r.entry.id = GenId

\* ---- C13
\* C13: POST /models creates a record only for a verified caller whose
\* email is the record's developerEmail, and the record's owner id is that
\* caller's uid; a request answered 403 has created nothing.
C13_CreateByVerifiedEmail ==
  [][\A s \in Slots :
       (reqs[s].kind = "create" /\ Stepped(s))
         => /\ (reqs'[s].pc = "done" /\ reqs'[s].status = 403) => models' = models
            /\ \A i \in ObjIds :
                 models'[i] # models[i]
                   => /\ Verified(reqs[s])
                      /\ models'[i].developerEmail = EmailOf(reqs[s].caller)
                      /\ models'[i].developerUid = reqs[s].caller]_vars

\* ---- C14
\* C14: a GET /models/:id, or a POST /purchase-model of a verified caller,
\* whose id is no ObjectId is answered 400 and writes to neither store.
C14_InvalidIdRejected ==
  \A s \in Slots :
    LET r == reqs[s] IN
    (r.pc = "done" /\ ~IsValid(r.id) /\ ~r.failed
       /\ (r.kind = "get" \/ (r.kind = "purchase" /\ Verified(r))))
      => (r.status = 400 /\ r.nInc = 0 /\ r.nSet = 0 /\ ~r.applied)

\* ---- C15
\* C15: within one purchase the $inc is issued only after the duplicate
\* check has completed and before any ledger insert, and the ledger insert
\* only after the check and the $inc have completed.
C15_CheckIncSetOrder ==
  [][\A s \in Slots :
       (reqs[s].kind = "purchase" /\ Stepped(s))
         => /\ (reqs'[s].incd /\ ~reqs[s].incd)
                 => (reqs[s].checked /\ reqs[s].nSet = 0)
            /\ models' # models => reqs[s].checked
            /\ ledger' # ledger => (reqs[s].checked /\ reqs[s].incd)]_vars

\* ---- C16
\* C16: the purchase counter of every record that exists is at least the
\* number of ledger entries that refer to the record.
C16_CounterCoversEntries ==
  \A i \in ObjIds :
    models[i].live
      => models[i].purchased
           >= Cardinality({e \in LedgerKeys \X (1..MaxLedger + 1) :
                             ObjectIdOf(e[1][2]) = i /\ e[2] <= ledger[e[1]]})

====
